---- MODULE Spec2Model ----
(***************************************************************************)
(* Emoji registry and matching engine of pineoncellar/ai-emoji.            *)
(*                                                                         *)
(* State: the in-memory registry (EmojiManager.emoji_objects, emoji_num),  *)
(* the persisted record collection (data/emoji_data.json), the files of    *)
(* the staging directory data/emoji_approved and of the registered-assets  *)
(* directory data/emoji_registed, the wall clock, and the position of the  *)
(* periodic scan (start_periodic_check_register) inside its batch.         *)
(*                                                                         *)
(* Strings that are matched character by character (queries, emotion tags) *)
(* are sequences of one-character strings; all other strings are atoms.    *)
(***************************************************************************)
EXTENDS Integers, Sequences, FiniteSets, TLC

VARIABLES
    emoji_objects,  \* EmojiManager.emoji_objects: sequence of MaiEmoji objects
    emoji_num,      \* EmojiManager.emoji_num: the counter that gates admission
    json,           \* content of data/emoji_data.json: sequence of dicts
    fs,             \* the files: [<<dir, name>> -> content or NoFile]
    now,            \* time.time()
    json_form,      \* what the text of that file is: "list" (a JSON list, the
                    \* value of json) or one of the forms of BrokenForms
    do_replace,     \* global_config.emoji.do_replace
    emoji_num_max,  \* EmojiManager.emoji_num_max (global_config.emoji.max_reg_num)
    registering,    \* the new_emoji register_emoji_by_filename is building while
                    \* the scan is inside it: <<object>>, else <<>>
    phase,          \* "idle": the scan sleeps; "batch": inside its for loop;
                    \* "failed": the application did not start
    batch,          \* files_to_process not yet handled in this cycle
    staged,         \* number of images that have arrived in staging so far
    lastOp,         \* the operation that ran last
    returned,       \* what that operation returned
    log,            \* the branch it took (the message it logged)
    lastArg         \* the argument of the call that ran last: the text of
                    \* get_emoji_for_text; <<hash, usage_count found>> of
                    \* record_usage (-1: no record found); <<filename, io,
                    \* description>> of a registration, description being
                    \* what build_emoji_description returned (None when it
                    \* was not called); <<hash, io>> of delete_emoji; io
                    \* is what the operating system answered; the
                    \* <<removed_count, cleaned_count>> the integrity check
                    \* of a cycle logs; for a load
                    \* of the store on its own, the operation before it; the
                    \* list being written, for a save that was cut short;
                    \* else None

vars == <<emoji_objects, emoji_num, json, json_form, fs, now, do_replace,
          emoji_num_max, registering, phase, batch, staged, lastOp, returned, log,
          lastArg>>

(***************************************************************************)
(* Bounds of the model.                                                    *)
(***************************************************************************)
MaxTime == 1
MaxUsage == 2
MaxRegNum == 1
MaxStaged == 2
MaxRecords == 2
MaxLen == 3
MaxResponses == 4

\* EmojiConfig.max_reg_num as config.py declares it
max_reg_num == 100
max_retries == 3
base_wait == 5

(***************************************************************************)
(* Directories, file names and file contents.                              *)
(***************************************************************************)
EMOJI_APPROVED_DIR == "emoji_approved"
EMOJI_REGISTED_DIR == "emoji_registed"
UNREVIEWED_DIR == "emoji_unreviewed"
\* os.path.join(BASE_DIR, "emoji"), where register_approved_image copies to
TEMP_EMOJI_DIR == "emoji"
Dirs == {UNREVIEWED_DIR, EMOJI_APPROVED_DIR, EMOJI_REGISTED_DIR, TEMP_EMOJI_DIR}
Names == {"f1.jpg", "f2.jpg"}
Paths == Dirs \X Names
NoFile == "NoFile"
BadImage == "bad"
GoodImages == {"c1", "c2"}
Contents == GoodImages \cup {BadImage}

None == "None"

\* hashlib.md5(image_bytes).hexdigest(): the digest of the content
Md5(c) == <<"md5", c>>
NoHash == <<>>
Hashes == {Md5(c) : c \in GoodImages} \cup {<<"md5", "unknown">>}


(***************************************************************************)
(* MaiEmoji and its dict form.                                             *)
(***************************************************************************)
\* MaiEmoji.__init__(full_path) at time t
MaiEmoji(full_path, t) ==
    [full_path |-> full_path,
     path |-> full_path[1],
     filename |-> full_path[2],
     hash |-> NoHash,
     description |-> "",
     emotion |-> <<>>,
     usage_count |-> 0,
     last_used_time |-> t,
     register_time |-> t,
     is_deleted |-> FALSE,
     format |-> ""]

\* to_dict that writes a usage_count of 0
to_dict_NoCount(e) ==
    [hash |-> e.hash,
     full_path |-> e.full_path,
     filename |-> e.filename,
     description |-> e.description,
     emotion |-> e.emotion,
     usage_count |-> 0,
     last_used_time |-> e.last_used_time,
     register_time |-> e.register_time,
     is_deleted |-> e.is_deleted,
     format |-> e.format]

\* MaiEmoji.to_dict
to_dict(e) ==
    [hash |-> e.hash,
     full_path |-> e.full_path,
     filename |-> e.filename,
     description |-> e.description,
     emotion |-> e.emotion,
     usage_count |-> e.usage_count,
     last_used_time |-> e.last_used_time,
     register_time |-> e.register_time,
     is_deleted |-> e.is_deleted,
     format |-> e.format]

\* from_dict that does not read usage_count
from_dict_NoUsage(d) ==
    [MaiEmoji(d.full_path, d.register_time) EXCEPT
        !.hash = d.hash,
        !.description = d.description,
        !.emotion = d.emotion,
        !.last_used_time = d.last_used_time,
        !.register_time = d.register_time,
        !.is_deleted = d.is_deleted,
        !.format = d.format]

\* MaiEmoji.from_dict: path and filename are recomputed from full_path
from_dict(d) ==
    [MaiEmoji(d.full_path, d.register_time) EXCEPT
        !.hash = d.hash,
        !.description = d.description,
        !.emotion = d.emotion,
        !.usage_count = d.usage_count,
        !.last_used_time = d.last_used_time,
        !.register_time = d.register_time,
        !.is_deleted = d.is_deleted,
        !.format = d.format]

RECURSIVE SelectIdx(_, _, _)
\* the subsequence of s at the indices i >= k that are in keep, in order
SelectIdx(s, keep, k) ==
    IF k > Len(s) THEN <<>>
    ELSE IF k \in keep THEN <<s[k]>> \o SelectIdx(s, keep, k + 1)
    ELSE SelectIdx(s, keep, k + 1)

\* a list comprehension [x for i, x in enumerate(s) if i in keep]
Keep(s, keep) == SelectIdx(s, keep, 1)

\* texts of the file that are not a JSON list of dicts: text json.load
\* rejects, and a JSON document that is an object
BrokenForms == {"unparseable", "object"}

\* a dict without the key "full_path"
NoPath == <<>>

\* _load_emoji_json: the list json.load returns, [] when it raises
_load_emoji_json(form, j) == IF form = "unparseable" THEN <<>> ELSE j

\* _load_all_emoji_objects
_load_all_emoji_objects(j) ==
    LET live == Keep(j, {i \in DOMAIN j : ~j[i].is_deleted})
    IN [i \in DOMAIN live |-> from_dict(live[i])]

\* _save_all_emoji_objects: the new content of the json file
_save_all_emoji_objects(objs) == [i \in DOMAIN objs |-> to_dict(objs[i])]

\* os.path.exists
Exists(f, p) == f[p] # NoFile

\* what the operating system answers to the calls of one handler: the move
\* of register_to_json ("ok", or os.remove of the destination raises, or
\* os.rename raises), its _save_emoji_json ("ok", or open raises), and the
\* os.remove of MaiEmoji.delete ("ok" or it raises)
IoOk == [move |-> "ok", save |-> "ok", remove |-> "ok"]
RegisterFaults ==
    {[IoOk EXCEPT !.move = "remove fails"], [IoOk EXCEPT !.move = "rename fails"],
     [IoOk EXCEPT !.save = "fails"]}
DeleteFaults == {[IoOk EXCEPT !.remove = "fails"]}

\* MaiEmoji.delete giving up when os.remove fails
delete_Strict(e, j, f, io) ==
    IF Exists(f, e.full_path) /\ io.remove # "ok"
    THEN [fs |-> f, json |-> j, ok |-> FALSE]
    ELSE [fs |-> IF Exists(f, e.full_path) THEN [f EXCEPT ![e.full_path] = NoFile] ELSE f,
          json |-> Keep(j, {i \in DOMAIN j : j[i].hash # e.hash}),
          ok |-> TRUE]

\* MaiEmoji.delete: removes the file if it is there (a failing os.remove is
\* only logged) and drops every dict with the record's hash from the json
\* file; the caller marks the object deleted
delete(e, j, f, io) ==
    [fs |-> IF Exists(f, e.full_path) /\ io.remove = "ok"
            THEN [f EXCEPT ![e.full_path] = NoFile] ELSE f,
     json |-> Keep(j, {i \in DOMAIN j : j[i].hash # e.hash}),
     ok |-> TRUE]

\* clean_unused_emojis that tracks no path
clean_unused_emojis_All(emoji_dir, objs, f) ==
    [p \in Paths |-> IF p[1] = emoji_dir THEN NoFile ELSE f[p]]

\* clean_unused_emojis(emoji_dir, emoji_objects): the files afterwards
clean_unused_emojis(emoji_dir, objs, f) ==
    LET tracked_full_paths ==
            {objs[i].full_path : i \in {k \in DOMAIN objs : ~objs[k].is_deleted}}
    IN [p \in Paths |->
            IF p[1] = emoji_dir /\ Exists(f, p) /\ p \notin tracked_full_paths
            THEN NoFile ELSE f[p]]

\* get_emoji_from_manager with the test of is_deleted inverted
get_emoji_from_manager_Inverted(objs, emoji_hash) ==
    LET hits == {i \in DOMAIN objs : objs[i].is_deleted /\ objs[i].hash = emoji_hash}
    IN IF hits = {} THEN 0 ELSE CHOOSE i \in hits : \A k \in hits : i <= k

\* EmojiManager.get_emoji_from_manager: index of the first live record with
\* that hash, 0 when there is none
get_emoji_from_manager(objs, emoji_hash) ==
    LET hits == {i \in DOMAIN objs : ~objs[i].is_deleted /\ objs[i].hash = emoji_hash}
    IN IF hits = {} THEN 0 ELSE CHOOSE i \in hits : \A k \in hits : i <= k

(***************************************************************************)
(* The captioning collaborator, as build_emoji_description sees it.        *)
(***************************************************************************)
TagA == <<"a">>
TagAB == <<"a", "b">>
TagB == <<"b">>
TagABB == <<"a", "b", "b">>

\* what analyze_emotion_from_image returns as the description when a
\* request to the captioning collaborator has failed for good
FailedCaption == "cannot analyze image"

\* build_emoji_description returns what analyze_emotion_from_image returns:
\* a description with its tags, or ("cannot analyze image", []) when the
\* analysis failed (a request that raised after its retries); it returns
\* ("", []) when it raised itself, and an answer of the collaborator with
\* empty content gives an empty description too
CaptionOutcomes ==
    {[description |-> "desc", emotion |-> <<TagAB, TagB>>],
     [description |-> FailedCaption, emotion |-> <<>>],
     [description |-> "", emotion |-> <<>>]}

(***************************************************************************)
(* Registration.                                                           *)
(***************************************************************************)
\* MaiEmoji.initialize_hash_format on an existing file: the object with hash
\* and format, marked deleted when the image cannot be decoded
initialize_hash_format(e, f) ==
    IF ~Exists(f, e.full_path) \/ f[e.full_path] = BadImage
    THEN [e EXCEPT !.is_deleted = TRUE]
    ELSE [e EXCEPT !.hash = Md5(f[e.full_path]), !.format = "jpeg"]

\* register_to_json that copies the file instead of moving it
register_to_json_Copy(e, j, f, io) ==
    LET destination_full_path == <<EMOJI_REGISTED_DIR, e.filename>>
        moved == [e EXCEPT !.full_path = destination_full_path,
                           !.path = EMOJI_REGISTED_DIR]
    IN IF ~Exists(f, e.full_path) \/ io # IoOk
       THEN [ok |-> FALSE, emoji |-> e, json |-> j, fs |-> f, log |-> "move failed"]
       ELSE [ok |-> TRUE, emoji |-> moved, json |-> Append(j, to_dict(moved)),
             fs |-> [f EXCEPT ![destination_full_path] = f[e.full_path]],
             log |-> "saved"]

\* register_to_json that goes on to the json file after a failed move
register_to_json_MoveUnchecked(e, j, f, io) ==
    LET destination_full_path == <<EMOJI_REGISTED_DIR, e.filename>>
        moved == [e EXCEPT !.full_path = destination_full_path,
                           !.path = EMOJI_REGISTED_DIR]
    IN IF ~Exists(f, e.full_path)
       THEN [ok |-> FALSE, emoji |-> e, json |-> j, fs |-> f, log |-> "source missing"]
       ELSE IF io.move # "ok"
       THEN [ok |-> TRUE, emoji |-> moved, json |-> Append(j, to_dict(moved)),
             fs |-> f, log |-> "move failed"]
       ELSE [ok |-> TRUE, emoji |-> moved, json |-> Append(j, to_dict(moved)),
             fs |-> [f EXCEPT ![destination_full_path] = f[e.full_path],
                              ![e.full_path] = NoFile],
             log |-> "saved"]

\* MaiEmoji.register_to_json: move the file into the registered directory
\* (replacing what is there), then append the dict to the json file. A
\* failing move returns False (os.rename may fail after the destination was
\* removed); a failing save, after the move, returns False too
register_to_json(e, j, f, io) ==
    LET source_full_path == e.full_path
        destination_full_path == <<EMOJI_REGISTED_DIR, e.filename>>
        moved == [e EXCEPT !.full_path = destination_full_path,
                           !.path = EMOJI_REGISTED_DIR]
        after_move == [f EXCEPT ![destination_full_path] = f[source_full_path],
                                ![source_full_path] = NoFile]
    IN IF ~Exists(f, source_full_path)
       THEN [ok |-> FALSE, emoji |-> e, json |-> j, fs |-> f, log |-> "source missing"]
       ELSE IF io.move = "remove fails" /\ Exists(f, destination_full_path)
       THEN [ok |-> FALSE, emoji |-> e, json |-> j, fs |-> f, log |-> "move failed"]
       ELSE IF io.move = "rename fails"
       THEN [ok |-> FALSE, emoji |-> e, json |-> j,
             fs |-> [f EXCEPT ![destination_full_path] = NoFile],
             log |-> "move failed"]
       ELSE IF io.save # "ok"
       THEN [ok |-> FALSE, emoji |-> moved, json |-> j, fs |-> after_move,
             log |-> "save failed"]
       ELSE [ok |-> TRUE,
             emoji |-> moved,
             json |-> Append(j, to_dict(moved)),
             fs |-> after_move,
             log |-> "saved"]

\* register_emoji_by_filename without its duplicate check
IsDuplicate_Off(objs, emoji_hash) == FALSE

\* the duplicate check of register_emoji_by_filename
IsDuplicate(objs, emoji_hash) == get_emoji_from_manager(objs, emoji_hash) # 0

\* EmojiManager.register_emoji_by_filename(filename), the captioning
\* collaborator answering with caption, at time t
register_emoji_by_filename(filename, caption, objs, num, j, f, t, io) ==
    LET file_full_path == <<EMOJI_APPROVED_DIR, filename>>
        same == [objs |-> objs, num |-> num, json |-> j, fs |-> f]
        new_emoji == initialize_hash_format(MaiEmoji(file_full_path, t), f)
        described == [new_emoji EXCEPT !.description = caption.description,
                                       !.emotion = caption.emotion]
        reg == register_to_json(described, j, f, io)
        appended == Append(objs, reg.emoji)
    IN IF ~Exists(f, file_full_path)
       THEN same @@ [ret |-> FALSE, log |-> "file missing"]
       ELSE IF new_emoji.is_deleted
       THEN same @@ [ret |-> FALSE, log |-> "hash failed"]
       ELSE IF IsDuplicate(objs, new_emoji.hash)
       THEN same @@ [ret |-> FALSE, log |-> "duplicate"]
       ELSE IF reg.ok
       THEN [objs |-> appended, num |-> num + 1,
             json |-> _save_all_emoji_objects(appended), fs |-> reg.fs,
             ret |-> TRUE, log |-> "registered"]
       ELSE [objs |-> objs, num |-> num, json |-> reg.json, fs |-> reg.fs,
             ret |-> FALSE, log |-> reg.log]

(***************************************************************************)
(* Integrity check, deletion, usage recording, replacement.                *)
(***************************************************************************)
RECURSIVE IntegrityLoop(_, _)
\* the for loop of check_emoji_file_integrity from index i on; st carries
\* the objects, emoji_num, the json file, the files and objects_to_remove
\* (as indices: the code removes by object identity)
IntegrityLoop(st, i) ==
    IF i > Len(st.objs) THEN st
    ELSE LET emoji == st.objs[i]
             d == delete(emoji, st.json, st.fs, IoOk)
             dropped == [st EXCEPT !.objs[i].is_deleted = TRUE,
                                   !.json = d.json,
                                   !.fs = d.fs,
                                   !.remove = @ \cup {i},
                                   !.num = @ - 1]
         IN IF emoji.is_deleted
            THEN IntegrityLoop([st EXCEPT !.remove = @ \cup {i}], i + 1)
            ELSE IF ~Exists(st.fs, emoji.full_path)
            THEN IntegrityLoop(dropped, i + 1)
            ELSE IF emoji.description = ""
            THEN IntegrityLoop(dropped, i + 1)
            ELSE IntegrityLoop(st, i + 1)

\* EmojiManager.check_emoji_file_integrity
check_emoji_file_integrity(objs, num, j, f) ==
    IF objs = <<>>
    THEN [objs |-> objs, num |-> num, json |-> j, fs |-> f,
          removed_count |-> 0, cleaned_count |-> 0]
    ELSE LET st == IntegrityLoop([objs |-> objs, num |-> Len(objs), json |-> j,
                                  fs |-> f, remove |-> {}], 1)
             kept == Keep(st.objs, DOMAIN st.objs \ st.remove)
             cleaned == clean_unused_emojis(EMOJI_REGISTED_DIR, kept, st.fs)
         IN [objs |-> kept,
             num |-> st.num,
             json |-> IF st.remove # {} THEN _save_all_emoji_objects(kept) ELSE st.json,
             fs |-> cleaned,
             removed_count |-> Len(objs) - st.num,
             cleaned_count |-> Cardinality({p \in Paths : cleaned[p] # st.fs[p]})]

\* delete_emoji leaving the counter as it is
delete_emoji_NoCount(emoji_hash, objs, num, j, f, io) ==
    LET i == get_emoji_from_manager(objs, emoji_hash)
        d == delete(objs[i], j, f, io)
        kept == Keep(objs, {k \in DOMAIN objs : objs[k].hash # emoji_hash})
    IN IF i = 0
       THEN [objs |-> objs, num |-> num, json |-> j, fs |-> f,
             ret |-> FALSE, log |-> "not found"]
       ELSE IF d.ok
       THEN [objs |-> kept, num |-> num,
             json |-> _save_all_emoji_objects(kept), fs |-> d.fs,
             ret |-> TRUE, log |-> "deleted"]
       ELSE [objs |-> objs, num |-> num, json |-> j, fs |-> f,
             ret |-> FALSE, log |-> "delete failed"]

\* EmojiManager.delete_emoji(emoji_hash)
delete_emoji(emoji_hash, objs, num, j, f, io) ==
    LET i == get_emoji_from_manager(objs, emoji_hash)
        d == delete(objs[i], j, f, io)
        kept == Keep(objs, {k \in DOMAIN objs : objs[k].hash # emoji_hash})
    IN IF i = 0
       THEN [objs |-> objs, num |-> num, json |-> j, fs |-> f,
             ret |-> FALSE, log |-> "not found"]
       ELSE IF d.ok
       THEN [objs |-> kept, num |-> num - 1,
             json |-> _save_all_emoji_objects(kept), fs |-> d.fs,
             ret |-> TRUE, log |-> "deleted"]
       ELSE [objs |-> objs, num |-> num, json |-> j, fs |-> f,
             ret |-> FALSE, log |-> "delete failed"]

\* record_usage taking the first record whatever its hash
FindByHash_Any(objs, emoji_hash) == IF objs = <<>> THEN 0 ELSE 1

\* the first record with that hash, as the for loop of record_usage finds
\* it (deleted or not); 0 when there is none
FindByHash(objs, emoji_hash) ==
    LET hits == {i \in DOMAIN objs : objs[i].hash = emoji_hash}
    IN IF hits = {} THEN 0 ELSE CHOOSE i \in hits : \A k \in hits : i <= k

\* record_usage without its _save_all_emoji_objects
record_usage_NoSave(emoji_hash, objs, j, t) ==
    LET i == FindByHash(objs, emoji_hash)
        used == [objs EXCEPT ![i].usage_count = @ + 1, ![i].last_used_time = t]
    IN IF i = 0
       THEN [objs |-> objs, json |-> j, log |-> "usage: hash not found"]
       ELSE [objs |-> used, json |-> j, log |-> "usage recorded"]

\* EmojiManager.record_usage(emoji_hash) at time t
record_usage(emoji_hash, objs, j, t) ==
    LET i == FindByHash(objs, emoji_hash)
        used == [objs EXCEPT ![i].usage_count = @ + 1, ![i].last_used_time = t]
    IN IF i = 0
       THEN [objs |-> objs, json |-> j, log |-> "usage: hash not found"]
       ELSE [objs |-> used, json |-> _save_all_emoji_objects(used),
             log |-> "usage recorded"]

\* replace_a_emoji that deletes the first candidate without a decision
replace_a_emoji_Evicting(objs, num, j, f) ==
    IF objs = <<>>
    THEN [objs |-> objs, num |-> num, json |-> j, fs |-> f, ret |-> FALSE,
          log |-> "replace failed: division by zero"]
    ELSE LET d == delete_emoji(objs[1].hash, objs, num, j, f, IoOk)
         IN [objs |-> d.objs, num |-> d.num, json |-> d.json, fs |-> d.fs,
             ret |-> FALSE, log |-> "replace failed: no judge"]

\* EmojiManager.replace_a_emoji(new_emoji): with no record the weights sum
\* to 0 and the normalisation raises ZeroDivisionError; otherwise asking
\* self.llm_emotion_judge raises AttributeError (__init__ never sets it, the
\* assignment is commented out). Both are caught and the method returns False
replace_a_emoji(objs, num, j, f) ==
    [objs |-> objs, num |-> num, json |-> j, fs |-> f, ret |-> FALSE,
     log |-> IF objs = <<>> THEN "replace failed: division by zero"
             ELSE "replace failed: no judge"]

(***************************************************************************)
(* Matching.                                                               *)
(***************************************************************************)
Min3(a, b, c) == IF a <= b /\ a <= c THEN a ELSE IF b <= c THEN b ELSE c

RECURSIVE LevRow(_, _, _, _, _)
\* the inner loop of _levenshtein_distance: current_row for the character
\* c1, from position j of s2 on (rows are 1-based here, 0-based in the code)
LevRow(c1, s2, previous_row, current_row, j) ==
    IF j > Len(s2) THEN current_row
    ELSE LET insertions == previous_row[j + 1] + 1
             deletions == current_row[j] + 1
             substitutions == previous_row[j] + (IF c1 # s2[j] THEN 1 ELSE 0)
         IN LevRow(c1, s2, previous_row,
                   Append(current_row, Min3(insertions, deletions, substitutions)),
                   j + 1)

RECURSIVE LevRows(_, _, _, _)
\* the outer loop of _levenshtein_distance from character i of s1 on
LevRows(s1, s2, previous_row, i) ==
    IF i > Len(s1) THEN previous_row
    ELSE LevRows(s1, s2, LevRow(s1[i], s2, previous_row, <<i>>, 1), i + 1)

\* LevOrdered answering with the length of the empty string
LevOrdered_LenOfEmpty(s1, s2) ==
    IF Len(s2) = 0 THEN Len(s2)
    ELSE LevRows(s1, s2, [k \in 1..(Len(s2) + 1) |-> k - 1], 1)[Len(s2) + 1]

\* _levenshtein_distance after its swap: Len(s1) >= Len(s2)
LevOrdered(s1, s2) ==
    IF Len(s2) = 0 THEN Len(s1)
    ELSE LevRows(s1, s2, [k \in 1..(Len(s2) + 1) |-> k - 1], 1)[Len(s2) + 1]

\* EmojiManager._levenshtein_distance
_levenshtein_distance(s1, s2) ==
    IF Len(s1) < Len(s2) THEN LevOrdered(s2, s1) ELSE LevOrdered(s1, s2)

\* similarity = 1 - (distance / max_len if max_len > 0 else 0), as the
\* fraction <<numerator, denominator>>
Similarity(text_emotion, emotion) ==
    LET distance == _levenshtein_distance(text_emotion, emotion)
        max_len == IF Len(text_emotion) >= Len(emotion)
                   THEN Len(text_emotion) ELSE Len(emotion)
    IN IF max_len > 0 THEN <<max_len - distance, max_len>> ELSE <<1, 1>>

\* a > b for fractions with positive denominators
FracGT(a, b) == a[1] * b[2] > b[1] * a[2]

\* a >= b for fractions with positive denominators
FracGE(a, b) == a[1] * b[2] >= b[1] * a[2]

RECURSIVE EmotionLoop(_, _, _, _, _)
\* the inner loop of get_emoji_for_text over the tags of the record at
\* index i, from tag k on: the triples it appends to emoji_similarities
EmotionLoop(text_emotion, i, emotions, k, similarity_limit) ==
    IF k > Len(emotions) THEN <<>>
    ELSE LET emotion == emotions[k]
             similarity == Similarity(text_emotion, emotion)
             appended == IF FracGT(similarity, similarity_limit)
                         THEN <<[emoji |-> i, similarity |-> similarity,
                                 emotion |-> emotion]>>
                         ELSE <<>>
         IN appended \o EmotionLoop(text_emotion, i, emotions, k + 1, similarity_limit)

RECURSIVE EmojiLoop(_, _, _, _)
\* the outer loop of get_emoji_for_text from the record at index i on:
\* records marked deleted and records without tags are skipped
EmojiLoop(text_emotion, objs, i, similarity_limit) ==
    IF i > Len(objs) THEN <<>>
    ELSE IF objs[i].is_deleted \/ objs[i].emotion = <<>>
    THEN EmojiLoop(text_emotion, objs, i + 1, similarity_limit)
    ELSE EmotionLoop(text_emotion, i, objs[i].emotion, 1, similarity_limit)
            \o EmojiLoop(text_emotion, objs, i + 1, similarity_limit)

RECURSIVE InsertDesc(_, _)
\* x put into a list sorted by similarity, highest first, behind the
\* entries that are not lower (list.sort is stable)
InsertDesc(x, sorted) ==
    IF sorted = <<>> THEN <<x>>
    ELSE IF FracGE(Head(sorted).similarity, x.similarity)
    THEN <<Head(sorted)>> \o InsertDesc(x, Tail(sorted))
    ELSE <<x>> \o sorted

RECURSIVE SortDesc(_, _)
\* emoji_similarities.sort(key=lambda x: x[1], reverse=True): the first
\* Len(list) - k + 1 entries of the list, sorted
SortDesc(list, k) ==
    IF k > Len(list) THEN <<>>
    ELSE InsertDesc(list[Len(list) - k + 1], SortDesc(list, k + 1))

\* emoji_similarities of get_emoji_for_text after its sort, for the
\* threshold similarity_limit
emoji_similarities(text_emotion, objs, similarity_limit) ==
    SortDesc(EmojiLoop(text_emotion, objs, 1, similarity_limit), 1)

\* top_emojis: the first 10 entries
top_emojis(text_emotion, objs, similarity_limit) ==
    LET list == emoji_similarities(text_emotion, objs, similarity_limit)
    IN IF Len(list) > 10 THEN SubSeq(list, 1, 10) ELSE list

\* EmojiManager.get_emoji_for_text(text_emotion): the loop reads
\* global_config.emoji.similarity_limit at the first live record that has
\* tags; EmojiConfig declares no such field, so the read raises
\* AttributeError, which the method catches, returning None. With no such
\* record the candidate list stays empty and the method returns None too.
\* record_usage is never reached
get_emoji_for_text(text_emotion, objs) ==
    LET tagged == {i \in DOMAIN objs : ~objs[i].is_deleted /\ objs[i].emotion # <<>>}
    IN IF objs = <<>>
       THEN [ret |-> None, log |-> "no emoji in memory"]
       ELSE IF tagged # {}
       THEN [ret |-> None, log |-> "get failed: no similarity_limit"]
       ELSE [ret |-> None, log |-> "no match"]

(***************************************************************************)
(* The state machine.                                                      *)
(***************************************************************************)
Queries == {TagA, TagAB}

\* the times a call made now or later can read from the clock
Times == {t \in now..(now + 1) : t <= MaxTime}

\* the orders in which os.listdir can return the names in S
Orders(S) ==
    {o \in [1..Cardinality(S) -> S] : \A x \in S : \E i \in DOMAIN o : o[i] = x}

\* _save_emoji_json writes a JSON list: the form of the file after a step
\* that left the content j_new where j_old was
form_after(j_new, j_old, form) == IF j_new # j_old THEN "list" ELSE form

\* after _ensure_emoji_dir and __init__: empty directories, json file "[]"
Init ==
    /\ emoji_objects = <<>>
    /\ emoji_num = 0
    /\ json = <<>>
    /\ json_form = "list"
    /\ fs = [p \in Paths |-> NoFile]
    /\ now = 0
    /\ do_replace \in BOOLEAN
    /\ emoji_num_max = MaxRegNum
    /\ registering = <<>>
    /\ phase = "idle"
    /\ batch = <<>>
    /\ lastOp = "init"
    /\ returned = None
    /\ log = ""
    /\ lastArg = None
    /\ staged = 0

\* an approved image arrives in the staging directory (approve_image renames
\* it there, replacing a file of the same name)
Stage(n, c) ==
    /\ staged < MaxStaged
    /\ staged' = staged + 1
    /\ fs[<<EMOJI_APPROVED_DIR, n>>] # c
    /\ fs' = [fs EXCEPT ![<<EMOJI_APPROVED_DIR, n>>] = c]
    /\ lastOp' = "stage"
    /\ returned' = None
    /\ log' = ""
    /\ lastArg' = None
    /\ UNCHANGED <<emoji_objects, emoji_num, json, json_form, now, do_replace, emoji_num_max, registering, phase, batch>>

\* the process starts again: initialize, then the scan task reloads with
\* get_all_emoji_from_json and enters its loop
Restart ==
    /\ emoji_objects' = _load_all_emoji_objects(json)
    /\ emoji_num' = Len(_load_all_emoji_objects(json))
    /\ phase' = "idle"
    /\ batch' = <<>>
    /\ lastOp' = "initialize"
    /\ returned' = None
    /\ log' = ""
    /\ lastArg' = None
    /\ UNCHANGED <<staged, json, json_form, fs, now, do_replace, emoji_num_max, registering>>

\* the head of one cycle of start_periodic_check_register: integrity check,
\* listing of the staging directory, the capacity gate
CycleStart ==
    /\ phase = "idle"
    /\ LET c == check_emoji_file_integrity(emoji_objects, emoji_num, json, fs)
           files == {n \in Names : Exists(c.fs, <<EMOJI_APPROVED_DIR, n>>)}
           gate == (c.num > emoji_num_max /\ do_replace) \/ (c.num < emoji_num_max)
       IN /\ emoji_objects' = c.objs
          /\ emoji_num' = c.num
          /\ json' = c.json
          /\ fs' = c.fs
          /\ IF files # {} /\ gate
             THEN /\ batch' \in Orders(files)
                  /\ phase' = "batch"
                  /\ log' = "scan"
             ELSE /\ batch' = <<>>
                  /\ phase' = "idle"
                  /\ log' = IF files = {} THEN "no new files" ELSE "skipped: full"
          /\ lastArg' = <<c.removed_count, c.cleaned_count>>
    /\ lastOp' = "cycle"
    /\ returned' = None
    /\ json_form' = form_after(json', json, json_form)
    /\ UNCHANGED <<staged, now, do_replace, emoji_num_max, registering>>

\* the for loop leaving a file whose registration failed where it is
RegisterNext_KeepFailed(caption, t, io) ==
    /\ phase = "batch"
    /\ batch # <<>>
    /\ LET filename == Head(batch)
           file_path == <<EMOJI_APPROVED_DIR, filename>>
           r == register_emoji_by_filename(filename, caption, emoji_objects,
                                           emoji_num, json, fs, t, io)
           aborted == ~r.ret /\ ~Exists(r.fs, file_path)
           rest == IF aborted THEN <<>> ELSE Tail(batch)
           captioned == r.log \notin {"file missing", "hash failed", "duplicate"}
       IN /\ emoji_objects' = r.objs
          /\ emoji_num' = r.num
          /\ json' = r.json
          /\ fs' = r.fs
          /\ batch' = rest
          /\ phase' = IF rest = <<>> THEN "idle" ELSE "batch"
          /\ returned' = r.ret
          /\ log' = r.log
          /\ lastOp' = "register"
          /\ lastArg' = <<filename, io,
                          IF captioned THEN caption.description ELSE None>>
    /\ now' = t
    /\ json_form' = form_after(json', json, json_form)
    /\ UNCHANGED <<staged, do_replace, emoji_num_max, registering>>

\* one iteration of the for loop over files_to_process: register the file
\* and, when that fails, os.remove it; a failing os.remove leaves the loop
\* through the except clause around it
RegisterNext(caption, t, io) ==
    /\ phase = "batch"
    /\ batch # <<>>
    /\ LET filename == Head(batch)
           file_path == <<EMOJI_APPROVED_DIR, filename>>
           r == register_emoji_by_filename(filename, caption, emoji_objects,
                                           emoji_num, json, fs, t, io)
           aborted == ~r.ret /\ ~Exists(r.fs, file_path)
           rest == IF aborted THEN <<>> ELSE Tail(batch)
           captioned == r.log \notin {"file missing", "hash failed", "duplicate"}
       IN /\ emoji_objects' = r.objs
          /\ emoji_num' = r.num
          /\ json' = r.json
          /\ fs' = IF ~r.ret /\ Exists(r.fs, file_path)
                   THEN [r.fs EXCEPT ![file_path] = NoFile] ELSE r.fs
          /\ batch' = rest
          /\ phase' = IF rest = <<>> THEN "idle" ELSE "batch"
          /\ returned' = r.ret
          /\ log' = r.log
          /\ lastOp' = "register"
          /\ lastArg' = <<filename, io,
                          IF captioned THEN caption.description ELSE None>>
    /\ now' = t
    /\ json_form' = form_after(json', json, json_form)
    /\ UNCHANGED <<staged, do_replace, emoji_num_max, registering>>

\* a call of delete_emoji
DeleteEmoji(h, io) ==
    /\ LET r == delete_emoji(h, emoji_objects, emoji_num, json, fs, io)
       IN /\ emoji_objects' = r.objs
          /\ emoji_num' = r.num
          /\ json' = r.json
          /\ fs' = r.fs
          /\ returned' = r.ret
          /\ log' = r.log
    /\ lastOp' = "delete_emoji"
    /\ lastArg' = <<h, io>>
    /\ json_form' = form_after(json', json, json_form)
    /\ UNCHANGED <<staged, now, do_replace, emoji_num_max, registering, phase, batch>>

\* a call of record_usage
RecordUsage(h, t) ==
    /\ LET i == FindByHash(emoji_objects, h)
           r == record_usage(h, emoji_objects, json, t)
       IN /\ i # 0 => emoji_objects[i].usage_count < MaxUsage
          /\ emoji_objects' = r.objs
          /\ json' = r.json
          /\ log' = r.log
          /\ lastArg' = <<h, IF i # 0 THEN emoji_objects[i].usage_count ELSE -1>>
    /\ now' = t
    /\ lastOp' = "record_usage"
    /\ returned' = None
    /\ json_form' = form_after(json', json, json_form)
    /\ UNCHANGED <<staged, emoji_num, fs, do_replace, emoji_num_max, registering, phase, batch>>

\* a call of get_emoji_for_text
GetEmojiForText(q) ==
    /\ LET r == get_emoji_for_text(q, emoji_objects)
       IN /\ returned' = r.ret
          /\ log' = r.log
    /\ lastOp' = "get_emoji_for_text"
    /\ lastArg' = q
    /\ UNCHANGED <<staged, emoji_objects, emoji_num, json, json_form, fs, now, do_replace, emoji_num_max, registering, phase, batch>>

\* a call of replace_a_emoji
ReplaceAEmoji ==
    /\ LET r == replace_a_emoji(emoji_objects, emoji_num, json, fs)
       IN /\ emoji_objects' = r.objs
          /\ emoji_num' = r.num
          /\ json' = r.json
          /\ fs' = r.fs
          /\ returned' = r.ret
          /\ log' = r.log
    /\ lastOp' = "replace_a_emoji"
    /\ lastArg' = None
    /\ json_form' = form_after(json', json, json_form)
    /\ UNCHANGED <<staged, now, do_replace, emoji_num_max, registering, phase, batch>>

Next ==
    \/ \E n \in Names, c \in Contents : Stage(n, c)
    \/ Restart
    \/ CycleStart
    \/ \E caption \in CaptionOutcomes, t \in Times : RegisterNext(caption, t, IoOk)
    \/ \E h \in Hashes : DeleteEmoji(h, IoOk)
    \/ \E h \in Hashes, t \in Times : RecordUsage(h, t)
    \/ \E q \in Queries : GetEmojiForText(q)
    \/ ReplaceAEmoji

Spec == Init /\ [][Next]_vars

\* the same program configured with room for one record more
InitRoomy ==
    /\ emoji_objects = <<>>
    /\ emoji_num = 0
    /\ json = <<>>
    /\ json_form = "list"
    /\ fs = [p \in Paths |-> NoFile]
    /\ now = 0
    /\ do_replace \in BOOLEAN
    /\ emoji_num_max = MaxRegNum + 1
    /\ registering = <<>>
    /\ phase = "idle"
    /\ batch = <<>>
    /\ lastOp = "init"
    /\ returned = None
    /\ log = ""
    /\ lastArg = None
    /\ staged = 0

SpecRoomy == InitRoomy /\ [][Next]_vars

\* the program after it has started on a store whose text json.load
\* rejects: get_all_emoji_from_json has loaded [], while the files of the
\* records registered before are in the registered directory
InitFallback ==
    /\ emoji_objects = <<>>
    /\ emoji_num = 0
    /\ json = <<>>
    /\ json_form = "unparseable"
    /\ \E registered \in (SUBSET Names) \ {{}} :
          fs = [p \in Paths |-> IF p[1] = EMOJI_REGISTED_DIR /\ p[2] \in registered
                                THEN IF p[2] = "f1.jpg" THEN "c1" ELSE "c2"
                                ELSE NoFile]
    /\ now = 0
    /\ do_replace \in BOOLEAN
    /\ emoji_num_max = MaxRegNum + 1
    /\ registering = <<>>
    /\ phase = "idle"
    /\ batch = <<>>
    /\ lastOp = "init"
    /\ returned = None
    /\ log = ""
    /\ lastArg = None
    /\ staged = 0

SpecFallback == InitFallback /\ [][Next]_vars

\* the program configured with the max_reg_num of config.py
InitDefault ==
    /\ emoji_objects = <<>>
    /\ emoji_num = 0
    /\ json = <<>>
    /\ json_form = "list"
    /\ fs = [p \in Paths |-> NoFile]
    /\ now = 0
    /\ do_replace \in BOOLEAN
    /\ emoji_num_max = max_reg_num
    /\ registering = <<>>
    /\ phase = "idle"
    /\ batch = <<>>
    /\ lastOp = "init"
    /\ returned = None
    /\ log = ""
    /\ lastArg = None
    /\ staged = 0

SpecDefault == InitDefault /\ [][Next]_vars

\* one iteration of the for loop, on an operating system that answers ok
RegisterStep ==
    /\ lastOp' = "register"
    /\ \E caption \in CaptionOutcomes, t \in Times : RegisterNext(caption, t, IoOk)

\* the head of a cycle
CycleStep == lastOp' = "cycle" /\ CycleStart

\* the scan on its own, with files arriving in the staging directory
NextScan ==
    \/ \E n \in Names, c \in Contents : Stage(n, c)
    \/ CycleStart
    \/ \E caption \in CaptionOutcomes, t \in Times : RegisterNext(caption, t, IoOk)

\* a step of the scan task: the head of a cycle while it sleeps, the next
\* file while it is inside a batch
ScanStep == CycleStep \/ RegisterStep

\* the scan task is scheduled: asyncio.sleep returns and the next cycle
\* starts, and a batch that has files left goes on with its next file
SpecScanFair ==
    /\ InitDefault
    /\ [][NextScan]_vars
    /\ WF_<<phase, batch, lastOp, log>>(ScanStep)

(***************************************************************************)
(* The same program on an operating system whose file calls can fail, and  *)
(* with a process that can stop inside a save.                             *)
(***************************************************************************)
\* the process stops inside _save_emoji_json of a record_usage call that
\* found its record: open(path, "w") has emptied the file and json.dump has
\* written a part of the new text, which json.load rejects. The process is
\* then started again: initialize and get_all_emoji_from_json load []
CrashInSave(h, t) ==
    /\ FindByHash(emoji_objects, h) # 0
    /\ lastArg' = record_usage(h, emoji_objects, json, t).json
    /\ json' = <<>>
    /\ json_form' = "unparseable"
    /\ emoji_objects' = <<>>
    /\ emoji_num' = 0
    /\ phase' = "idle"
    /\ batch' = <<>>
    /\ now' = t
    /\ lastOp' = "crash in save"
    /\ returned' = None
    /\ log' = ""
    /\ UNCHANGED <<staged, fs, do_replace, emoji_num_max, registering>>

\* what can raise in a cycle outside the try of its for loop: os.listdir or
\* os.remove inside clear_temp_emoji, os.listdir of the staging directory
ScanFaults == {"clear_temp_emoji raised", "listdir staging raised"}

\* a cycle in which one of these raises: the integrity check has run, the
\* exception leaves the while loop and start_periodic_check_register, and
\* the task main.py created ends; nothing starts it again but a new process
CycleRaises(cause) ==
    /\ phase = "idle"
    /\ LET c == check_emoji_file_integrity(emoji_objects, emoji_num, json, fs)
       IN /\ emoji_objects' = c.objs
          /\ emoji_num' = c.num
          /\ json' = c.json
          /\ fs' = c.fs
          /\ lastArg' = <<c.removed_count, c.cleaned_count>>
    /\ batch' = <<>>
    /\ phase' = "stopped"
    /\ log' = cause
    /\ lastOp' = "cycle"
    /\ returned' = None
    /\ json_form' = form_after(json', json, json_form)
    /\ UNCHANGED <<staged, now, do_replace, emoji_num_max, registering>>

\* get_emoji_for_text and replace_a_emoji, which change nothing, are left out
NextFault ==
    \/ \E n \in Names, c \in Contents : Stage(n, c)
    \/ Restart
    \/ CycleStart
    \/ \E caption \in CaptionOutcomes, t \in Times, io \in {IoOk} \cup RegisterFaults :
          RegisterNext(caption, t, io)
    \/ \E h \in Hashes, io \in {IoOk} \cup DeleteFaults : DeleteEmoji(h, io)
    \/ \E h \in Hashes, t \in Times : RecordUsage(h, t)
    \/ \E h \in Hashes, t \in Times : CrashInSave(h, t)
    \/ \E cause \in ScanFaults : CycleRaises(cause)

SpecFault == InitRoomy /\ [][NextFault]_vars

(***************************************************************************)
(* The scan as the asyncio task it is. A coroutine gives the event loop to *)
(* other handlers, and can be cancelled, only where it waits: in           *)
(* asyncio.sleep between cycles and in the requests of the captioning      *)
(* collaborator. register_to_json, the append and the save that follow the *)
(* captioning contain no such wait. phase has more values here: "caption"  *)
(* (waiting for the captioning), "moved" (the file is in the registered    *)
(* directory), "persisted" (register_to_json has saved the dict) and       *)
(* "stopped" (the task was cancelled).                                      *)
(***************************************************************************)
\* the coroutine can be cancelled and other handlers can run while it waits
\* with no cancellation point at any phase
SuspensionPoints_All == {"idle", "batch", "caption", "moved", "persisted"}

\* the phases in which the scan waits: asyncio.sleep, and the aiohttp
\* requests below build_emoji_description
SuspensionPoints == {"idle", "caption"}

\* the scan's for loop goes on with the files left, or the cycle ends
AfterFile(rest) == IF rest = <<>> THEN "idle" ELSE "batch"

\* register_emoji_by_filename up to the wait in build_emoji_description; a
\* registration that fails before it returns False, and the scan removes
\* the staged file (when there is none os.remove raises and ends the batch)
RegisterBegin(t) ==
    /\ phase = "batch"
    /\ batch # <<>>
    /\ LET filename == Head(batch)
           file_full_path == <<EMOJI_APPROVED_DIR, filename>>
           created == initialize_hash_format(MaiEmoji(file_full_path, t), fs)
       IN /\ lastArg' = <<filename, IoOk, None>>
          /\ IF ~Exists(fs, file_full_path)
             THEN /\ batch' = <<>>
                  /\ phase' = "idle"
                  /\ returned' = FALSE
                  /\ log' = "file missing"
                  /\ UNCHANGED <<fs, registering>>
             ELSE IF created.is_deleted \/ IsDuplicate(emoji_objects, created.hash)
             THEN /\ batch' = Tail(batch)
                  /\ phase' = AfterFile(Tail(batch))
                  /\ returned' = FALSE
                  /\ log' = IF created.is_deleted THEN "hash failed" ELSE "duplicate"
                  /\ fs' = [fs EXCEPT ![file_full_path] = NoFile]
                  /\ UNCHANGED registering
             ELSE /\ registering' = <<created>>
                  /\ phase' = "caption"
                  /\ returned' = None
                  /\ log' = "captioning"
                  /\ UNCHANGED <<fs, batch>>
    /\ now' = t
    /\ lastOp' = "register"
    /\ UNCHANGED <<emoji_objects, emoji_num, json, json_form, do_replace,
                   emoji_num_max, staged>>

\* the captioning has answered: description and tags are set and
\* register_to_json moves the file
RegisterMove(caption) ==
    /\ phase = "caption"
    /\ LET described == [registering[1] EXCEPT !.description = caption.description,
                                                !.emotion = caption.emotion]
           reg == register_to_json(described, json, fs, IoOk)
       IN IF reg.ok
          THEN /\ registering' = <<reg.emoji>>
               /\ fs' = reg.fs
               /\ phase' = "moved"
               /\ returned' = None
               /\ log' = "moved"
               /\ UNCHANGED batch
          ELSE /\ registering' = <<>>
               /\ fs' = reg.fs
               /\ batch' = <<>>
               /\ phase' = "idle"
               /\ returned' = FALSE
               /\ log' = reg.log
    /\ lastOp' = "register"
    /\ lastArg' = <<Head(batch), IoOk, caption.description>>
    /\ UNCHANGED <<emoji_objects, emoji_num, json, json_form, now, do_replace,
                   emoji_num_max, staged>>

\* register_to_json appends the dict to the list of the json file
RegisterPersist ==
    /\ phase = "moved"
    /\ json' = Append(_load_emoji_json(json_form, json), to_dict(registering[1]))
    /\ json_form' = "list"
    /\ phase' = "persisted"
    /\ lastOp' = "register"
    /\ returned' = None
    /\ log' = "saved"
    /\ UNCHANGED <<emoji_objects, emoji_num, fs, now, do_replace, emoji_num_max,
                   registering, batch, staged, lastArg>>

\* register_emoji_by_filename appends the object, counts it and saves
RegisterAppend ==
    /\ phase = "persisted"
    /\ emoji_objects' = Append(emoji_objects, registering[1])
    /\ emoji_num' = emoji_num + 1
    /\ json' = _save_all_emoji_objects(emoji_objects')
    /\ json_form' = "list"
    /\ registering' = <<>>
    /\ batch' = Tail(batch)
    /\ phase' = AfterFile(Tail(batch))
    /\ lastOp' = "register"
    /\ returned' = TRUE
    /\ log' = "registered"
    /\ UNCHANGED <<fs, now, do_replace, emoji_num_max, staged, lastArg>>

\* lifespan cancels the task at shutdown: CancelledError is raised where
\* the coroutine waits, and no except clause of the scan catches it
Cancel ==
    /\ phase \in SuspensionPoints
    /\ phase' = "stopped"
    /\ lastOp' = "cancel"
    /\ lastArg' = phase
    /\ returned' = None
    /\ log' = ""
    /\ UNCHANGED <<emoji_objects, emoji_num, json, json_form, fs, now, do_replace,
                   emoji_num_max, registering, batch, staged>>

\* the handlers of the other coroutines run while the scan waits
NextAsync ==
    \/ phase \in SuspensionPoints /\ \E n \in Names, c \in Contents : Stage(n, c)
    \/ phase \in SuspensionPoints /\ \E h \in Hashes : DeleteEmoji(h, IoOk)
    \/ phase \in SuspensionPoints /\ \E h \in Hashes, t \in Times : RecordUsage(h, t)
    \/ phase \in SuspensionPoints /\ \E q \in Queries : GetEmojiForText(q)
    \/ CycleStart
    \/ \E t \in Times : RegisterBegin(t)
    \/ \E caption \in CaptionOutcomes : RegisterMove(caption)
    \/ RegisterPersist
    \/ RegisterAppend
    \/ Cancel

SpecAsync == InitRoomy /\ [][NextAsync]_vars

(***************************************************************************)
(* A second registrar. register_approved_image and batch_register_approved *)
(* of manager.py are coroutines of the same manager object; a call of one  *)
(* runs in the event loop of the scan and goes through the same            *)
(* register_emoji_by_filename, so it can run while the scan waits for the  *)
(* captioning of its own file. The call is taken here as one step: its     *)
(* captioning answers before the scan's does.                              *)
(***************************************************************************)
\* what open(target_path, "wb") meets: data/emoji is there, or it is not
CopyOutcomes == {"ok", "no directory"}

\* register_approved_image(filename): copy the staged file to data/emoji,
\* register it with register_emoji_by_filename, then remove the staged file
\* (os.remove of a file already moved is only logged) or, when the
\* registration failed, the copy
register_approved_image(filename, caption, objs, num, j, f, t, copy) ==
    LET file_path == <<EMOJI_APPROVED_DIR, filename>>
        target_path == <<TEMP_EMOJI_DIR, filename>>
        copied == [f EXCEPT ![target_path] = f[file_path]]
        r == register_emoji_by_filename(filename, caption, objs, num, j,
                                        copied, t, IoOk)
    IN IF ~Exists(f, file_path)
       THEN [objs |-> objs, num |-> num, json |-> j, fs |-> f,
             ret |-> FALSE, log |-> "approved file missing"]
       ELSE IF copy # "ok"
       THEN [objs |-> objs, num |-> num, json |-> j, fs |-> f,
             ret |-> FALSE, log |-> "copy failed"]
       ELSE IF r.ret
       THEN [r EXCEPT !.fs = [r.fs EXCEPT ![file_path] = NoFile]]
       ELSE [r EXCEPT !.fs = [r.fs EXCEPT ![target_path] = NoFile]]

\* a call of register_approved_image (one turn of the loop of
\* batch_register_approved) while the scan waits
RegisterApprovedImage(filename, caption, t, copy) ==
    /\ phase \in SuspensionPoints
    /\ LET r == register_approved_image(filename, caption, emoji_objects,
                                        emoji_num, json, fs, t, copy)
       IN /\ emoji_objects' = r.objs
          /\ emoji_num' = r.num
          /\ json' = r.json
          /\ fs' = r.fs
          /\ returned' = r.ret
          /\ log' = r.log
    /\ now' = t
    /\ lastOp' = "register_approved"
    /\ lastArg' = <<filename, copy, caption.description>>
    /\ json_form' = form_after(json', json, json_form)
    /\ UNCHANGED <<staged, do_replace, emoji_num_max, registering, phase, batch>>

NextOverlap ==
    \/ phase \in SuspensionPoints /\ \E n \in Names, c \in Contents : Stage(n, c)
    \/ CycleStart
    \/ \E t \in Times : RegisterBegin(t)
    \/ \E caption \in CaptionOutcomes : RegisterMove(caption)
    \/ RegisterPersist
    \/ RegisterAppend
    \/ \E n \in Names, caption \in CaptionOutcomes, t \in Times, copy \in CopyOutcomes :
            RegisterApprovedImage(n, caption, t, copy)

SpecOverlap == InitRoomy /\ [][NextOverlap]_vars

(***************************************************************************)
(* The record store on its own: loading and the full-replace save, for any *)
(* content of data/emoji_data.json and any collection of records.          *)
(***************************************************************************)
\* _load_all_emoji_objects raises: iterating a dict yields its keys, and
\* str has no get (AttributeError); from_dict reads d["full_path"] of every
\* entry that is not marked deleted (KeyError)
LoadRaises(form, j) ==
    \/ form = "object"
    \/ /\ form = "list"
       /\ \E i \in DOMAIN j : ~j[i].is_deleted /\ j[i].full_path = NoPath

\* records as registration and use leave them, live or marked deleted
SampleRecords ==
    {[MaiEmoji(<<EMOJI_REGISTED_DIR, n>>, 0) EXCEPT
         !.hash = Md5(IF n = "f1.jpg" THEN "c1" ELSE "c2"),
         !.format = "jpeg",
         !.description = cap.description,
         !.emotion = cap.emotion,
         !.usage_count = u[1],
         !.last_used_time = u[2],
         !.is_deleted = del] :
       n \in Names, cap \in CaptionOutcomes,
       u \in {<<0, 0>>, <<MaxUsage, MaxTime>>}, del \in BOOLEAN}

\* the dicts of such records, with and without the key "full_path"
SampleDicts ==
    {to_dict(r) : r \in SampleRecords}
        \cup {[to_dict(r) EXCEPT !.full_path = NoPath] : r \in SampleRecords}

\* the sequences over S of length at most n
SeqsUpTo(S, n) == UNION {[1..k -> S] : k \in 0..n}

\* a manager that holds any collection of records over an empty store, or
\* a manager not yet initialized over any store
InitStore ==
    /\ \/ /\ emoji_objects \in SeqsUpTo(SampleRecords, MaxRecords)
          /\ json = <<>>
          /\ json_form = "list"
       \/ /\ emoji_objects = <<>>
          /\ json \in SeqsUpTo(SampleDicts, MaxRecords)
          /\ json_form = "list"
       \/ /\ emoji_objects = <<>>
          /\ json = <<>>
          /\ json_form \in BrokenForms
    /\ emoji_num = Len(emoji_objects)
    /\ fs = [p \in Paths |-> NoFile]
    /\ now = 0
    /\ do_replace = FALSE
    /\ emoji_num_max = MaxRegNum
    /\ registering = <<>>
    /\ phase = "idle"
    /\ batch = <<>>
    /\ lastOp = "init"
    /\ returned = None
    /\ log = ""
    /\ lastArg = None
    /\ staged = 0

\* EmojiManager.initialize, as lifespan awaits it: nothing catches what
\* _load_all_emoji_objects raises, and lifespan raises it again
Initialize ==
    /\ phase = "idle"
    /\ IF LoadRaises(json_form, json)
       THEN /\ phase' = "failed"
            /\ log' = "raised"
            /\ UNCHANGED <<emoji_objects, emoji_num>>
       ELSE /\ emoji_objects' = _load_all_emoji_objects(_load_emoji_json(json_form, json))
            /\ emoji_num' = Len(emoji_objects')
            /\ phase' = "idle"
            /\ log' = ""
    /\ lastOp' = "initialize"
    /\ returned' = None
    /\ lastArg' = lastOp
    /\ UNCHANGED <<json, json_form, fs, now, do_replace, emoji_num_max,
                   registering, batch, staged>>

\* EmojiManager.get_all_emoji_from_json: what the load raises is caught
GetAllEmojiFromJson ==
    /\ phase = "idle"
    /\ IF LoadRaises(json_form, json)
       THEN /\ emoji_objects' = <<>>
            /\ emoji_num' = 0
            /\ log' = "load failed"
       ELSE /\ emoji_objects' = _load_all_emoji_objects(_load_emoji_json(json_form, json))
            /\ emoji_num' = Len(emoji_objects')
            /\ log' = "loaded"
    /\ lastOp' = "get_all_emoji_from_json"
    /\ returned' = None
    /\ lastArg' = lastOp
    /\ UNCHANGED <<json, json_form, fs, now, do_replace, emoji_num_max,
                   registering, phase, batch, staged>>

\* _save_all_emoji_objects(self.emoji_objects)
SaveAllEmojiObjects ==
    /\ phase = "idle"
    /\ json' = _save_all_emoji_objects(emoji_objects)
    /\ json_form' = "list"
    /\ lastOp' = "_save_all_emoji_objects"
    /\ returned' = None
    /\ log' = ""
    /\ lastArg' = None
    /\ UNCHANGED <<emoji_objects, emoji_num, fs, now, do_replace, emoji_num_max,
                   registering, phase, batch, staged>>

NextStore ==
    \/ Initialize
    \/ GetAllEmojiFromJson
    \/ SaveAllEmojiObjects

SpecStore == InitStore /\ [][NextStore]_vars

(***************************************************************************)
(* The matching of get_emoji_for_text on its own: the similarity of a text *)
(* and a tag, and the loop that collects the candidates, for any text, any *)
(* collection of records and a threshold. (In the method as it stands the  *)
(* read of the threshold raises before the loop body runs.)                *)
(***************************************************************************)
\* the strings of at most n characters
Strings(n) == UNION {[1..k -> {"a", "b"}] : k \in 0..n}

\* the lists of tags a record can hold
TagLists == {<<>>, <<TagAB>>, <<TagAB, TagB>>, <<TagB, TagAB>>, <<TagAB, TagABB>>}

\* registered records with such tags, live or marked deleted
MatchRecords(n) ==
    {[MaiEmoji(<<EMOJI_REGISTED_DIR, n>>, 0) EXCEPT
         !.hash = Md5(IF n = "f1.jpg" THEN "c1" ELSE "c2"),
         !.format = "jpeg",
         !.description = "desc",
         !.emotion = tags,
         !.is_deleted = del] : tags \in TagLists, del \in BOOLEAN}

\* values of a similarity threshold: 0 and 0.5
SimilarityLimits == {<<0, 1>>, <<1, 2>>}

\* a manager that holds up to two records with different hashes
InitMatch ==
    /\ \/ emoji_objects = <<>>
       \/ \E n \in Names : emoji_objects \in {<<r>> : r \in MatchRecords(n)}
       \/ emoji_objects \in {<<r1, r2>> : r1 \in MatchRecords("f1.jpg"),
                                          r2 \in MatchRecords("f2.jpg")}
    /\ emoji_num = Len(emoji_objects)
    /\ json = _save_all_emoji_objects(emoji_objects)
    /\ json_form = "list"
    /\ fs = [p \in Paths |-> IF \E i \in DOMAIN emoji_objects :
                                     emoji_objects[i].full_path = p
                              THEN IF p[2] = "f1.jpg" THEN "c1" ELSE "c2"
                              ELSE NoFile]
    /\ now = 0
    /\ do_replace = FALSE
    /\ emoji_num_max = max_reg_num
    /\ registering = <<>>
    /\ phase = "idle"
    /\ batch = <<>>
    /\ lastOp = "init"
    /\ returned = None
    /\ log = ""
    /\ lastArg = None
    /\ staged = 0

\* the similarity of a text and a tag, as the loop body computes it (one
\* evaluation for each choice of the inputs)
ScoreTag(text_emotion, emotion) ==
    /\ lastOp = "init"
    /\ lastOp' = "similarity"
    /\ lastArg' = <<text_emotion, emotion>>
    /\ returned' = Similarity(text_emotion, emotion)
    /\ log' = ""
    /\ UNCHANGED <<emoji_objects, emoji_num, json, json_form, fs, now, do_replace,
                   emoji_num_max, registering, phase, batch, staged>>

\* the candidates the loops collect for a text and a threshold (one
\* evaluation for each choice of the inputs)
CollectCandidates(text_emotion, similarity_limit) ==
    /\ lastOp = "init"
    /\ lastOp' = "top_emojis"
    /\ lastArg' = <<text_emotion, similarity_limit>>
    /\ returned' = top_emojis(text_emotion, emoji_objects, similarity_limit)
    /\ log' = ""
    /\ UNCHANGED <<emoji_objects, emoji_num, json, json_form, fs, now, do_replace,
                   emoji_num_max, registering, phase, batch, staged>>

NextScore ==
    \E text_emotion \in Strings(MaxLen), emotion \in Strings(MaxLen) :
        ScoreTag(text_emotion, emotion)

SpecScore == InitMatch /\ [][NextScore]_vars

\* a call of _levenshtein_distance (one evaluation for each choice of the
\* inputs)
LevenshteinDistance(s1, s2) ==
    /\ lastOp = "init"
    /\ lastOp' = "distance"
    /\ lastArg' = <<s1, s2>>
    /\ returned' = _levenshtein_distance(s1, s2)
    /\ log' = ""
    /\ UNCHANGED <<emoji_objects, emoji_num, json, json_form, fs, now, do_replace,
                   emoji_num_max, registering, phase, batch, staged>>

NextDistance ==
    \E s1 \in Strings(MaxLen), s2 \in Strings(MaxLen) : LevenshteinDistance(s1, s2)

SpecDistance == InitMatch /\ [][NextDistance]_vars

NextMatch ==
    \E text_emotion \in Strings(MaxLen), similarity_limit \in SimilarityLimits :
        CollectCandidates(text_emotion, similarity_limit)

SpecMatch == InitMatch /\ [][NextMatch]_vars

(***************************************************************************)
(* The request to the captioning collaborator (ImageRequest).              *)
(* A response is <<"status", code>> for an HTTP response with that status  *)
(* code, or <<"raises", exception>> when the attempt raises instead:       *)
(* aiohttp.ClientError, asyncio.TimeoutError, or another exception (the    *)
(* body is not JSON, _parse_response fails).                               *)
(***************************************************************************)
Statuses == {200, 404, 413, 429, 503}

Responses ==
    {<<"status", code>> : code \in Statuses}
        \cup {<<"raises", e>> : e \in {"ClientError", "TimeoutError", "Exception"}}

\* 2 ** n
RECURSIVE Pow2(_)
Pow2(n) == IF n = 0 THEN 1 ELSE 2 * Pow2(n - 1)

\* what _execute_request has done when it ends: how it ended, the number
\* of session.post calls, the seconds of each asyncio.sleep
Ended(outcome, attempts, waits) ==
    [outcome |-> outcome, attempts |-> attempts, waits |-> waits]

RECURSIVE RequestLoop_OneMore(_, _, _)
\* the loop making one attempt more than max_retries
RequestLoop_OneMore(responses, retry, waits) ==
    IF retry >= max_retries + 1
    THEN Ended("RequestError", retry, waits)
    ELSE LET response == responses[retry + 1]
             wait_time == base_wait * Pow2(retry)
             waited == Append(waits, wait_time)
             raised(e) == IF retry < max_retries
                          THEN RequestLoop_OneMore(responses, retry + 1, waited)
                          ELSE Ended(e, retry + 1, waits)
         IN IF response[1] = "raises"
            THEN IF response[2] \in {"ClientError", "TimeoutError"}
                 THEN RequestLoop_OneMore(responses, retry + 1, waited)
                 ELSE raised(response[2])
            ELSE IF response[2] >= 400 /\ response[2] < 500
            THEN IF response[2] = 413
                 THEN Ended("PayLoadTooLargeError", retry + 1, waits)
                 ELSE raised("RequestError")
            ELSE IF response[2] >= 500 \/ response[2] = 429
            THEN RequestLoop_OneMore(responses, retry + 1, waited)
            ELSE Ended("result", retry + 1, waits)

RECURSIVE RequestLoop(_, _, _)
\* the for loop of _execute_request from the attempt numbered retry on.
\* A status of 400 to 499 other than 413 raises RequestError inside the
\* try, where except Exception catches it: it waits and goes on unless this
\* was the last attempt. 429 is such a status, so the test for it in the
\* next if is never reached
RequestLoop(responses, retry, waits) ==
    IF retry >= max_retries
    THEN Ended("RequestError", retry, waits)
    ELSE LET response == responses[retry + 1]
             wait_time == base_wait * Pow2(retry)
             waited == Append(waits, wait_time)
             raised(e) == IF retry < max_retries - 1
                          THEN RequestLoop(responses, retry + 1, waited)
                          ELSE Ended(e, retry + 1, waits)
         IN IF response[1] = "raises"
            THEN IF response[2] \in {"ClientError", "TimeoutError"}
                 THEN RequestLoop(responses, retry + 1, waited)
                 ELSE raised(response[2])
            ELSE IF response[2] >= 400 /\ response[2] < 500
            THEN IF response[2] = 413
                 THEN Ended("PayLoadTooLargeError", retry + 1, waits)
                 ELSE raised("RequestError")
            ELSE IF response[2] >= 500 \/ response[2] = 429
            THEN RequestLoop(responses, retry + 1, waited)
            ELSE Ended("result", retry + 1, waits)

\* ImageRequest._execute_request, given what the service answers to each
\* attempt in turn
_execute_request(responses) == RequestLoop(responses, 0, <<>>)

\* a call of _execute_request (one for each choice of the answers)
ExecuteRequest(responses) ==
    /\ lastOp = "init"
    /\ lastOp' = "request"
    /\ lastArg' = responses
    /\ returned' = _execute_request(responses)
    /\ log' = ""
    /\ UNCHANGED <<emoji_objects, emoji_num, json, json_form, fs, now, do_replace,
                   emoji_num_max, registering, phase, batch, staged>>

NextRequest ==
    \E responses \in [1..MaxResponses -> Responses] : ExecuteRequest(responses)

SpecRequest == Init /\ [][NextRequest]_vars

(***************************************************************************)
(* Review of uploaded images (manager.py).                                 *)
(***************************************************************************)
\* what the operating system can answer to approve_image: os.remove of the
\* destination raises, or os.rename raises
ApproveFaults ==
    {[IoOk EXCEPT !.move = "remove fails"], [IoOk EXCEPT !.move = "rename fails"]}

\* EmojiManager.approve_image(filename, user): the file is renamed into the
\* approved directory, replacing a file of that name; then the method calls
\* self._save_metadata, which no class defines: AttributeError, caught by
\* the except clause, which returns False
approve_image(filename, f, io) ==
    LET source_path == <<UNREVIEWED_DIR, filename>>
        destination_path == <<EMOJI_APPROVED_DIR, filename>>
        removed == [f EXCEPT ![destination_path] = NoFile]
        renamed == [removed EXCEPT ![destination_path] = f[source_path],
                                   ![source_path] = NoFile]
    IN IF ~Exists(f, source_path)
       THEN [fs |-> f, ret |-> FALSE, log |-> "not found"]
       ELSE IF Exists(f, destination_path) /\ io.move = "remove fails"
       THEN [fs |-> f, ret |-> FALSE, log |-> "remove failed"]
       ELSE IF io.move = "rename fails"
       THEN [fs |-> removed, ret |-> FALSE, log |-> "rename failed"]
       ELSE [fs |-> renamed, ret |-> FALSE, log |-> "no _save_metadata"]

\* a call of save_unreviewed_image: the upload is written to the
\* unreviewed directory
SaveUnreviewedImage(n, c) ==
    /\ fs[<<UNREVIEWED_DIR, n>>] # c
    /\ fs' = [fs EXCEPT ![<<UNREVIEWED_DIR, n>>] = c]
    /\ lastOp' = "upload"
    /\ returned' = None
    /\ log' = ""
    /\ lastArg' = None
    /\ UNCHANGED <<emoji_objects, emoji_num, json, json_form, now, do_replace,
                   emoji_num_max, registering, phase, batch, staged>>

\* a call of approve_image
ApproveImage(filename, io) ==
    /\ LET r == approve_image(filename, fs, io)
       IN /\ fs' = r.fs
          /\ returned' = r.ret
          /\ log' = r.log
    /\ lastOp' = "approve"
    /\ lastArg' = <<filename, io>>
    /\ UNCHANGED <<emoji_objects, emoji_num, json, json_form, now, do_replace,
                   emoji_num_max, registering, phase, batch, staged>>

NextReview ==
    \/ \E n \in Names, c \in Contents : SaveUnreviewedImage(n, c)
    \/ \E n \in Names, io \in {IoOk} \cup ApproveFaults : ApproveImage(n, io)

SpecReview == Init /\ [][NextReview]_vars

(***************************************************************************)
(* Properties.                                                             *)
(***************************************************************************)
\* the live records of the in-memory sequence
Active == {i \in DOMAIN emoji_objects : ~emoji_objects[i].is_deleted}

\* C1: no two live records of the in-memory sequence have the same hash
C1_HashUnique ==
    \A i \in Active, k \in Active : i # k => emoji_objects[i].hash # emoji_objects[k].hash

\* two files have been registered one after the other and both are live
C1_Witness ==
    /\ lastOp = "register"
    /\ returned = TRUE
    /\ Cardinality(Active) = 2

\* the file the scan registers next holds the content of a live record
HeadIsDuplicate ==
    /\ phase = "batch"
    /\ batch # <<>>
    /\ fs[<<EMOJI_APPROVED_DIR, Head(batch)>>] \in GoodImages
    /\ \E i \in Active :
          emoji_objects[i].hash = Md5(fs[<<EMOJI_APPROVED_DIR, Head(batch)>>])

\* C2: registering a staged file whose content hash is that of a live record
\* returns False and changes neither the in-memory sequence, nor the count,
\* nor the json file
C2_DuplicateRejected ==
    [][(HeadIsDuplicate /\ lastOp' = "register")
        => /\ returned' = FALSE
           /\ emoji_objects' = emoji_objects
           /\ emoji_num' = emoji_num
           /\ json' = json]_vars

\* a registration has just been refused as a duplicate of a live record
C2_Witness ==
    /\ lastOp = "register"
    /\ returned = FALSE
    /\ log = "duplicate"
    /\ Active # {}
    /\ json # <<>>

\* C3: the number of live records never exceeds max_reg_num
C3_CapacityBound == Cardinality(Active) <= emoji_num_max

\* C4: with replacement disabled, whenever the scan calls
\* register_emoji_by_filename the count is strictly below max_reg_num
C4_RegisterOnlyBelowMax ==
    [][(lastOp' = "register" /\ ~do_replace) => emoji_num < emoji_num_max]_vars

\* C5: with replacement enabled and the count at or above max_reg_num, a
\* staged file is admitted only in exchange for an evicted record: the
\* count does not grow
C5_EvictBeforeRegister ==
    [][(lastOp' = "register" /\ do_replace /\ emoji_num >= emoji_num_max /\ returned' = TRUE)
        => /\ Len(emoji_objects') <= Len(emoji_objects)
           /\ emoji_num' <= emoji_num]_vars

\* the threshold the specification's example configures (0.5); EmojiConfig
\* itself declares none
ExampleSimilarityLimit == <<1, 2>>

\* the record has a tag whose similarity to the text exceeds the threshold
Qualifies(e, text) ==
    /\ ~e.is_deleted
    /\ \E k \in DOMAIN e.emotion :
          FracGT(Similarity(text, e.emotion[k]), ExampleSimilarityLimit)

\* C7: get_emoji_for_text returns None exactly when no live record has a
\* tag whose similarity to the text exceeds the threshold, and otherwise
\* the path and description of such a record
C7_NoneIffNoMatch ==
    lastOp = "get_emoji_for_text"
        => /\ (returned = None) <=> ~\E i \in DOMAIN emoji_objects :
                                    Qualifies(emoji_objects[i], lastArg)
           /\ returned # None =>
                \E i \in DOMAIN emoji_objects :
                    /\ Qualifies(emoji_objects[i], lastArg)
                    /\ returned = <<emoji_objects[i].full_path, emoji_objects[i].description>>

\* the record the record_usage call of this step is about
Target(h) == CHOOSE i \in DOMAIN emoji_objects :
                /\ emoji_objects[i].hash = h
                /\ \A k \in DOMAIN emoji_objects : emoji_objects[k].hash = h => i <= k

\* C9: a record_usage call on the hash of a record adds exactly one to its
\* usage_count and sets last_used_time to the time of the call, which is
\* not earlier than the time before; the json file holds the same values;
\* the second of two such calls in a row leaves usage_count two above what
\* the first found
C9_UsageCounts ==
    [][(lastOp' = "record_usage" /\ lastArg'[2] >= 0)
        => LET h == lastArg'[1]
               i == Target(h)
           IN /\ \E k \in DOMAIN emoji_objects : emoji_objects[k].hash = h
              /\ Len(emoji_objects') = Len(emoji_objects)
              /\ emoji_objects'[i].usage_count = emoji_objects[i].usage_count + 1
              /\ emoji_objects'[i].last_used_time = now'
              /\ emoji_objects'[i].last_used_time >= emoji_objects[i].last_used_time
              /\ Len(json') = Len(emoji_objects')
              /\ json'[i].hash = h
              /\ json'[i].usage_count = emoji_objects'[i].usage_count
              /\ json'[i].last_used_time = emoji_objects'[i].last_used_time
              /\ (lastOp = "record_usage" /\ lastArg[1] = h /\ lastArg[2] >= 0)
                    => emoji_objects'[i].usage_count = lastArg[2] + 2]_vars

\* two record_usage calls in a row on one record, the second at a later
\* time than the registration: the count is 2 and the time is the call's
C9_Witness ==
    /\ lastOp = "record_usage"
    /\ lastArg[2] = 1
    /\ \E i \in Active :
          /\ emoji_objects[i].hash = lastArg[1]
          /\ emoji_objects[i].usage_count = 2
          /\ emoji_objects[i].last_used_time = now
          /\ emoji_objects[i].last_used_time > emoji_objects[i].register_time
          /\ json[i].usage_count = 2

\* C10: record_usage with a hash that no record has returns normally and
\* changes neither the in-memory sequence nor the json file
C10_UnknownHashNoEffect ==
    [][(lastOp' = "record_usage"
        /\ ~\E k \in DOMAIN emoji_objects : emoji_objects[k].hash = lastArg'[1])
        => /\ emoji_objects' = emoji_objects
           /\ json' = json
           /\ returned' = None
           /\ log' = "usage: hash not found"]_vars

\* record_usage has just missed while the registry holds another record
C10_Witness ==
    /\ lastOp = "record_usage"
    /\ lastArg[2] = -1
    /\ log = "usage: hash not found"
    /\ Active # {}
    /\ \A i \in DOMAIN emoji_objects : emoji_objects[i].hash # lastArg[1]

\* the records of a sequence that are not marked deleted, in order
LiveOf(objs) == Keep(objs, {i \in DOMAIN objs : ~objs[i].is_deleted})

\* C11: a load that follows a full-replace save yields no record marked
\* deleted, and yields the records of the saved collection that were not
\* marked deleted, in order and equal field by field
C11_RoundTrip ==
    [][(lastOp = "_save_all_emoji_objects"
        /\ lastOp' \in {"initialize", "get_all_emoji_from_json"})
        => /\ log' \notin {"raised", "load failed"}
           /\ Len(emoji_objects') = Len(LiveOf(emoji_objects))
           /\ \A i \in DOMAIN emoji_objects' :
                LET a == emoji_objects'[i]
                    b == LiveOf(emoji_objects)[i]
                IN /\ ~a.is_deleted
                   /\ a.hash = b.hash
                   /\ a.full_path = b.full_path
                   /\ a.path = b.path
                   /\ a.filename = b.filename
                   /\ a.description = b.description
                   /\ a.emotion = b.emotion
                   /\ a.usage_count = b.usage_count
                   /\ a.last_used_time = b.last_used_time
                   /\ a.register_time = b.register_time
                   /\ a.format = b.format]_vars

\* a collection of a used live record and a record marked deleted has been
\* saved and loaded again
C11_Witness ==
    /\ lastOp = "get_all_emoji_from_json"
    /\ lastArg = "_save_all_emoji_objects"
    /\ Len(json) = 2
    /\ \E i \in DOMAIN json : json[i].is_deleted
    /\ Len(emoji_objects) = 1
    /\ emoji_objects[1].usage_count = MaxUsage
    /\ emoji_objects[1].last_used_time = MaxTime
    /\ emoji_objects[1].emotion # <<>>

\* C12: initialize never raises, whatever the json file holds
C12_LoadNeverRaises == ~(lastOp = "initialize" /\ log = "raised")

\* C13: a process that stops inside a save leaves the json file holding
\* the complete collection of before the save or the complete new one
C13_SaveAtomic ==
    [][lastOp' = "crash in save"
        => /\ json_form' = "list"
           /\ json' = json \/ json' = lastArg']_vars

\* the registration of this step is that of a decodable file that is no
\* duplicate, and the operating system refuses the move of register_to_json
MoveFails ==
    /\ lastOp' = "register"
    /\ LET filename == lastArg'[1]
           c == fs[<<EMOJI_APPROVED_DIR, filename>>]
       IN /\ c \in GoodImages
          /\ ~\E i \in Active : emoji_objects[i].hash = Md5(c)
          /\ \/ lastArg'[2].move = "rename fails"
             \/ /\ lastArg'[2].move = "remove fails"
                /\ Exists(fs, <<EMOJI_REGISTED_DIR, filename>>)

\* the step is a mutation of the registry that ran to its end: a
\* registration or a delete_emoji that returned True, a record_usage that
\* found its record, an integrity check that removed records
MutationCompleted ==
    \/ lastOp' = "register" /\ returned' = TRUE
    \/ lastOp' = "delete_emoji" /\ returned' = TRUE
    \/ lastOp' = "record_usage" /\ log' = "usage recorded"
    \/ lastOp' = "cycle" /\ Len(emoji_objects') < Len(emoji_objects)

\* C14: after a completed mutation the json file is a list that holds, in
\* order, one dict for each record of the in-memory sequence, with the
\* values of the record
C14_PersistedIsMemory ==
    [][MutationCompleted
        => /\ json_form' = "list"
           /\ Len(json') = Len(emoji_objects')
           /\ \A i \in DOMAIN emoji_objects' :
                LET d == json'[i]
                    e == emoji_objects'[i]
                IN /\ d.hash = e.hash
                   /\ d.full_path = e.full_path
                   /\ d.filename = e.filename
                   /\ d.description = e.description
                   /\ d.emotion = e.emotion
                   /\ d.usage_count = e.usage_count
                   /\ d.last_used_time = e.last_used_time
                   /\ d.register_time = e.register_time
                   /\ d.is_deleted = e.is_deleted
                   /\ d.format = e.format]_vars

\* delete_emoji has just removed one of two records; the record that
\* remains had been used
C14_Witness ==
    /\ lastOp = "delete_emoji"
    /\ returned = TRUE
    /\ Len(emoji_objects) = 1
    /\ emoji_objects[1].usage_count = 1
    /\ Len(json) = 1
    /\ json[1].usage_count = 1

\* C15: a registration whose move into the registered directory fails
\* returns False and changes neither the in-memory sequence, nor the count,
\* nor the json file
C15_MoveFailureLeavesStore ==
    [][MoveFails
        => /\ returned' = FALSE
           /\ emoji_objects' = emoji_objects
           /\ emoji_num' = emoji_num
           /\ json' = json]_vars

\* os.rename has just failed while the registry holds a record: the
\* registration returned False
C15_Witness ==
    /\ lastOp = "register"
    /\ lastArg[2].move = "rename fails"
    /\ log = "move failed"
    /\ returned = FALSE
    /\ Active # {}
    /\ json # <<>>

\* a sequence of records or dicts has one for the file at path p with
\* content c
Recorded(s, p, c) == \E i \in DOMAIN s : s[i].full_path = p /\ s[i].hash = Md5(c)

\* C16: when a registration attempt has returned, the file is registered
\* in full (it is in the registered directory, its record is in the json
\* file and in the in-memory sequence), or not at all (no record was added
\* and the registered directory does not hold it without a record)
C16_NoHalfRegistration ==
    [][lastOp' = "register"
        => LET filename == lastArg'[1]
               c == fs[<<EMOJI_APPROVED_DIR, filename>>]
               destination_full_path == <<EMOJI_REGISTED_DIR, filename>>
           IN \/ /\ returned' = TRUE
                 /\ fs'[destination_full_path] = c
                 /\ Recorded(json', destination_full_path, c)
                 /\ Recorded(emoji_objects', destination_full_path, c)
              \/ /\ returned' = FALSE
                 /\ emoji_objects' = emoji_objects
                 /\ json' = json
                 /\ ~(/\ c \in GoodImages
                      /\ fs'[destination_full_path] = c
                      /\ ~Recorded(json', destination_full_path, c))]_vars

C19_IntegrityCheck ==
    [][lastOp' = "cycle"
        => /\ \A i \in DOMAIN emoji_objects' :
                /\ Exists(fs', emoji_objects'[i].full_path)
                /\ emoji_objects'[i].description # ""
           /\ \A i \in DOMAIN emoji_objects :
                (~Exists(fs, emoji_objects[i].full_path)
                    \/ emoji_objects[i].description = "")
                => /\ \A k \in DOMAIN emoji_objects' :
                        emoji_objects'[k].hash # emoji_objects[i].hash
                   /\ \A k \in DOMAIN json' :
                        json'[k].hash # emoji_objects[i].hash]_vars

\* C20: the orphan sweep of a cycle removes no file that a record left
\* after the check has as its path: such a file is gone after the cycle
\* only when the check removed a record with the same path, whose delete
\* took the file
C20_SweepSparesTracked ==
    [][lastOp' = "cycle"
        => \A i \in DOMAIN emoji_objects' :
              LET e == emoji_objects'[i]
              IN (Exists(fs, e.full_path) /\ ~Exists(fs', e.full_path))
                 => \E k \in DOMAIN emoji_objects :
                       /\ emoji_objects[k].full_path = e.full_path
                       /\ \A m \in DOMAIN emoji_objects' :
                             emoji_objects'[m].hash # emoji_objects[k].hash]_vars

\* the sweep of a cycle has just removed a file without record from the
\* registered directory while a record was left, whose file is still there
C20_Witness ==
    /\ lastOp = "cycle"
    /\ lastArg[2] >= 1
    /\ emoji_objects # <<>>
    /\ \A i \in DOMAIN emoji_objects : Exists(fs, emoji_objects[i].full_path)

\* C17: when the task has been cancelled, it was waiting (never between
\* the move, the save and the append of a registration); a file whose
\* registration was under way is still in the staging directory, and no
\* record of the in-memory sequence or dict of the json file has its hash
C17_CancelAtSafeBoundary ==
    phase = "stopped"
        => /\ lastArg \in {"idle", "caption"}
           /\ registering # <<>> =>
                LET e == registering[1]
                IN /\ e.path = EMOJI_APPROVED_DIR
                   /\ Exists(fs, e.full_path)
                   /\ \A i \in DOMAIN emoji_objects : emoji_objects[i].hash # e.hash
                   /\ \A i \in DOMAIN json : json[i].hash # e.hash

\* the task has been cancelled while it waited for the captioning of a
\* second file; the first is registered
C17_Witness ==
    /\ phase = "stopped"
    /\ lastArg = "caption"
    /\ registering # <<>>
    /\ emoji_objects # <<>>
    /\ Len(json) = Len(emoji_objects)

\* the files of the registered directory that no live record of the
\* sequence has as its full_path
Orphans(f, objs) ==
    {p \in Paths :
        /\ p[1] = EMOJI_REGISTED_DIR
        /\ Exists(f, p)
        /\ ~\E i \in DOMAIN objs : ~objs[i].is_deleted /\ objs[i].full_path = p}

\* C21: after the integrity check of a cycle the registered directory holds
\* no file that is not the path of a live record, whatever the registry
\* holds, an empty registry included
C21_NoOrphanAfterCheck ==
    [][lastOp' = "cycle" => Orphans(fs', emoji_objects') = {}]_vars

\* C22: when the scan has handled one file of a batch, whatever happened to
\* that file, the files of the batch that follow it are still to be handled
\* in the same cycle
C22_BatchGoesOn ==
    [][(lastOp' = "register" /\ phase = "batch" /\ Len(batch) > 1)
        => /\ phase' = "batch"
           /\ batch' = Tail(batch)]_vars

\* C23: when the scan has handled a staged file that cannot be decoded, the
\* failure is logged, no record is added, and the file is still in the
\* staging directory
C23_UndecodableStays ==
    [][(lastOp' = "register"
        /\ fs[<<EMOJI_APPROVED_DIR, lastArg'[1]>>] = BadImage)
        => /\ returned' = FALSE
           /\ log' = "hash failed"
           /\ emoji_objects' = emoji_objects
           /\ json' = json
           /\ fs'[<<EMOJI_APPROVED_DIR, lastArg'[1]>>] = BadImage]_vars

\* C24: a registration whose captioning failed for good adds no record to
\* the in-memory sequence or to the json file, and the staged file is
\* deleted: it is neither in the staging directory nor moved into the
\* registered directory
C24_CaptionFailureAbandons ==
    [][(lastOp' = "register" /\ lastArg'[3] = FailedCaption)
        => /\ returned' = FALSE
           /\ emoji_objects' = emoji_objects
           /\ emoji_num' = emoji_num
           /\ json' = json
           /\ ~Exists(fs', <<EMOJI_APPROVED_DIR, lastArg'[1]>>)
           /\ fs'[<<EMOJI_REGISTED_DIR, lastArg'[1]>>]
                 = fs[<<EMOJI_REGISTED_DIR, lastArg'[1]>>]]_vars

\* C25: after a registration step no live record of the in-memory sequence
\* has an empty description
C25_NoEmptyDescription ==
    lastOp = "register" => \A i \in Active : emoji_objects[i].description # ""

\* the staging directory holds exactly the file n, a decodable image
OnlyStaged(n) ==
    /\ fs[<<EMOJI_APPROVED_DIR, n>>] \in GoodImages
    /\ \A m \in Names \ {n} : ~Exists(fs, <<EMOJI_APPROVED_DIR, m>>)

\* C26: with no record, a maximum of 100 and exactly one decodable image in
\* the staging directory, the head of a cycle puts that file, and only it,
\* up for registration; and when its captioning succeeds, the cycle ends
\* with exactly one record, live, with a description and at least one tag,
\* whose path is a file of the registered directory, in the json file too,
\* and the file is no longer in the staging directory
C26_OneCycleRegistersOne ==
    [][\A n \in Names :
        /\ (/\ lastOp' = "cycle"
            /\ phase = "idle"
            /\ emoji_objects = <<>>
            /\ emoji_num = 0
            /\ emoji_num_max = max_reg_num
            /\ OnlyStaged(n))
           => /\ phase' = "batch"
              /\ batch' = <<n>>
              /\ emoji_objects' = <<>>
              /\ fs' = fs
        /\ (/\ lastOp' = "register"
            /\ batch = <<n>>
            /\ emoji_objects = <<>>
            /\ emoji_num = 0
            /\ emoji_num_max = max_reg_num
            /\ OnlyStaged(n)
            /\ lastArg'[3] = "desc")
           => /\ returned' = TRUE
              /\ phase' = "idle"
              /\ emoji_num' = 1
              /\ Len(emoji_objects') = 1
              /\ ~emoji_objects'[1].is_deleted
              /\ emoji_objects'[1].description # ""
              /\ Len(emoji_objects'[1].emotion) >= 1
              /\ emoji_objects'[1].path = EMOJI_REGISTED_DIR
              /\ emoji_objects'[1].full_path = <<EMOJI_REGISTED_DIR, n>>
              /\ fs'[<<EMOJI_REGISTED_DIR, n>>] = fs[<<EMOJI_APPROVED_DIR, n>>]
              /\ ~Exists(fs', <<EMOJI_APPROVED_DIR, n>>)
              /\ Len(json') = 1
              /\ json'[1].hash = emoji_objects'[1].hash]_vars

\* a cycle that began with no record and one staged image has just ended
\* with that image registered, the maximum being 100
C26_Witness ==
    /\ lastOp = "register"
    /\ returned = TRUE
    /\ lastArg[3] = "desc"
    /\ phase = "idle"
    /\ emoji_num_max = max_reg_num
    /\ Len(emoji_objects) = 1
    /\ emoji_objects[1].emotion # <<>>
    /\ \A n \in Names : ~Exists(fs, <<EMOJI_APPROVED_DIR, n>>)
    /\ staged = 1

C28_NoLostUpdate ==
    [][/\ \A i \in DOMAIN emoji_objects, k \in DOMAIN emoji_objects' :
            emoji_objects'[k].hash = emoji_objects[i].hash
                => emoji_objects'[k].usage_count >= emoji_objects[i].usage_count
       /\ \A i \in DOMAIN json, k \in DOMAIN json' :
            json'[k].hash = json[i].hash
                => json'[k].usage_count >= json[i].usage_count
       /\ (lastOp' = "record_usage" /\ lastArg'[2] >= 0)
            => /\ \E k \in DOMAIN emoji_objects' :
                    /\ emoji_objects'[k].hash = lastArg'[1]
                    /\ emoji_objects'[k].usage_count = lastArg'[2] + 1
               /\ \E k \in DOMAIN json' :
                    /\ json'[k].hash = lastArg'[1]
                    /\ json'[k].usage_count = lastArg'[2] + 1
       /\ lastOp' = "get_emoji_for_text"
            => emoji_objects' = emoji_objects /\ json' = json
       /\ phase = "persisted"
            => \E k \in DOMAIN json' : json'[k].hash = registering[1].hash
       /\ (lastOp' = "register" /\ log' = "registered")
            => /\ emoji_objects' = Append(emoji_objects, registering[1])
               /\ Len(json') = Len(emoji_objects')
               /\ \A i \in DOMAIN emoji_objects' :
                    /\ json'[i].hash = emoji_objects'[i].hash
                    /\ json'[i].usage_count = emoji_objects'[i].usage_count]_vars

\* a registration has just been completed, and while it waited for the
\* captioning a record_usage call counted a use of an older record: both
\* the new record and the count are in memory and in the json file
C28_Witness ==
    /\ lastOp = "register"
    /\ log = "registered"
    /\ Len(emoji_objects) = 2
    /\ Len(json) = 2
    /\ emoji_objects[1].usage_count >= 1
    /\ emoji_objects[1].last_used_time > emoji_objects[2].register_time
    /\ json[1].usage_count = emoji_objects[1].usage_count
    /\ json[2].hash = emoji_objects[2].hash

\* a = b for fractions with positive denominators
FracEq(a, b) == a[1] * b[2] = b[1] * a[2]

\* C29: in the candidate list each record appears at most once, is live,
\* and is paired with one of its tags and that tag's similarity to the
\* text, which no tag of the record exceeds and which is strictly above the
\* threshold
C29_OneCandidatePerRecord ==
    lastOp = "top_emojis"
        => LET text_emotion == lastArg[1]
               similarity_limit == lastArg[2]
           IN /\ \A a \in DOMAIN returned, b \in DOMAIN returned :
                    a # b => returned[a].emoji # returned[b].emoji
              /\ \A a \in DOMAIN returned :
                    LET e == emoji_objects[returned[a].emoji]
                    IN /\ ~e.is_deleted
                       /\ \E k \in DOMAIN e.emotion : e.emotion[k] = returned[a].emotion
                       /\ FracEq(returned[a].similarity,
                                 Similarity(text_emotion, returned[a].emotion))
                       /\ \A k \in DOMAIN e.emotion :
                            FracGE(returned[a].similarity,
                                   Similarity(text_emotion, e.emotion[k]))
                       /\ FracGT(returned[a].similarity, similarity_limit)

RECURSIVE EditDistance(_, _)
\* the Levenshtein distance of two strings, by its recurrence
EditDistance(s, t) ==
    IF s = <<>> THEN Len(t)
    ELSE IF t = <<>> THEN Len(s)
    ELSE Min3(EditDistance(Tail(s), t) + 1,
              EditDistance(s, Tail(t)) + 1,
              EditDistance(Tail(s), Tail(t)) + (IF Head(s) = Head(t) THEN 0 ELSE 1))

\* C30: the similarity of a text and a tag is 0 when both are empty, and
\* otherwise 1 - editDistance / max(len(text), len(tag)); it is a number in
\* every case (nothing is divided by zero)
C30_SimilarityValue ==
    lastOp = "similarity"
        => LET text_emotion == lastArg[1]
               emotion == lastArg[2]
               max_len == IF Len(text_emotion) >= Len(emotion)
                          THEN Len(text_emotion) ELSE Len(emotion)
           IN /\ returned[2] > 0
              /\ IF max_len = 0
                 THEN FracEq(returned, <<0, 1>>)
                 ELSE FracEq(returned, <<max_len - EditDistance(text_emotion, emotion),
                                    max_len>>)

\* C31: the distance is symmetric, and the distance to the empty string is
\* the length of the other string
C31_DistanceSymmetric ==
    lastOp = "distance"
        => LET a == lastArg[1]
               b == lastArg[2]
           IN /\ returned = _levenshtein_distance(b, a)
              /\ b = <<>> => returned = Len(a)
              /\ a = <<>> => returned = Len(b)

\* the shorter string came first, so the call swapped its arguments
C31_Witness ==
    /\ lastOp = "distance"
    /\ lastArg = <<TagB, TagABB>>
    /\ returned = Len(TagABB) - Len(TagB)

\* C32: the scan loop never stops on its own: after a cycle in which the
\* temp cleanup or a directory listing failed, the files of that cycle are
\* being processed or the loop sleeps until its next cycle
C32_LoopNeverStops ==
    [][lastOp' = "cycle" => phase' \in {"idle", "batch"}]_vars

C34_BoundedAttempts ==
    lastOp = "request"
        => /\ returned.attempts >= 1
           /\ returned.attempts <= max_retries
           /\ returned.outcome \in {"result", "RequestError", "PayLoadTooLargeError",
                                    "Exception"}
           /\ Len(returned.waits) <= max_retries

\* the service answered every attempt with a server error
C34_Witness ==
    /\ lastOp = "request"
    /\ \A k \in 1..max_retries : lastArg[k] = <<"status", 503>>
    /\ returned.attempts = max_retries
    /\ returned.outcome = "RequestError"

\* C35: a status of 400 to 499 other than 413 ends the request at once with
\* RequestError, without a retry; with 5xx and 429 answers the request is
\* retried after waits of 5, 10 and 20 seconds
C35_ClientErrorEndsRequest ==
    lastOp = "request"
        => LET client(k) == /\ lastArg[k][1] = "status"
                            /\ lastArg[k][2] >= 400
                            /\ lastArg[k][2] < 500
                            /\ lastArg[k][2] # 413
                            /\ lastArg[k][2] # 429
               again(k) == /\ lastArg[k][1] = "status"
                           /\ (lastArg[k][2] >= 500 \/ lastArg[k][2] = 429)
           IN /\ client(1) => returned = Ended("RequestError", 1, <<>>)
              /\ (\A k \in 1..max_retries : again(k))
                    => /\ returned.attempts = max_retries
                       /\ returned.waits = [k \in 1..max_retries |->
                                               base_wait * Pow2(k - 1)]

\* C36: approve_image returns True exactly when it has moved the file from
\* the unreviewed directory to the approved directory, and when it returns
\* False no file has changed
C36_ApproveMovesOrNothing ==
    [][IF lastOp' = "approve"
       THEN LET source_path == <<UNREVIEWED_DIR, lastArg'[1]>>
                destination_path == <<EMOJI_APPROVED_DIR, lastArg'[1]>>
                moved == /\ Exists(fs, source_path)
                         /\ ~Exists(fs', source_path)
                         /\ fs'[destination_path] = fs[source_path]
            IN /\ returned' = moved
               /\ ~returned' => fs' = fs
       ELSE TRUE]_vars

\* C37: whenever no handler is half-way, the counter emoji_num is the
\* length of emoji_objects
C37_CountIsLength == emoji_num = Len(emoji_objects)

\* an integrity check removed one of two records and the other is counted
C37_Witness ==
    /\ lastOp = "cycle"
    /\ lastArg[1] = 1
    /\ Len(emoji_objects) = 1
    /\ emoji_num = 1

\* C38: after the fallback to an empty registry, nothing writes over the
\* store that could not be read, and no cycle deletes a file of the
\* registered directory that no record of the registry tracks (the files
\* of the records registered before)
C38_FallbackKeepsAssets ==
    [][/\ json_form = "unparseable" => json_form' = "unparseable"
       /\ lastOp' = "cycle"
            => \A p \in Orphans(fs, emoji_objects) : fs'[p] = fs[p]]_vars

\* C39: a registration leaves the backing file of every record that was
\* live before it as it was, and afterwards no two live records have the
\* same full_path
C39_PathsDistinct ==
    [][lastOp' = "register"
        => /\ \A i \in Active :
                fs'[emoji_objects[i].full_path] = fs[emoji_objects[i].full_path]
           /\ \A i, k \in DOMAIN emoji_objects' :
                (/\ i # k
                 /\ ~emoji_objects'[i].is_deleted
                 /\ ~emoji_objects'[k].is_deleted)
                    => emoji_objects'[i].full_path # emoji_objects'[k].full_path]_vars

\* C40: registrations of staged files with the same content that overlap
\* (the scan waiting for the captioning of one while register_approved_image
\* handles the other) leave at most one live record with that hash in the
\* active sequence and at most one dict with it in the json file
C40_OverlapOneRecord ==
    \A h \in Hashes :
        /\ Cardinality({i \in DOMAIN emoji_objects :
                            ~emoji_objects[i].is_deleted /\ emoji_objects[i].hash = h}) <= 1
        /\ Cardinality({i \in DOMAIN json : json[i].hash = h}) <= 1

====
